---- MODULE Spec2Model ----
(***************************************************************************)
(* Model of src/main.py: WakeWordDetector.run (the consumer loop on the    *)
(* main thread), _recording_worker (the capture thread), start_recording,  *)
(* stop_recording, play_video and cleanup.                                 *)
(*                                                                         *)
(* Scores are tenths: 0.5 is 5.  Frames are numbered in the order the      *)
(* capture threads read them from the stream.                              *)
(***************************************************************************)
EXTENDS Integers, Sequences, FiniteSets, TLC

\* ---- bounds of the model ------------------------------------------------
MaxFrames == 4
\* stands for Queue(maxsize=100), main.py:107, scaled down
QueueMaxsize == 2
\* thread objects that can exist at one time
NumThreads == 2
\* stands for samples_per_file = 16000 * 5, main.py:36, scaled down
SamplesPerFile == 2
\* stands for num_files=10, main.py:28, scaled down
NumFiles == 2
\* samples in one chunk given to process_chunk
MaxChunk == 5
\* samples given to the recorder in one run
MaxFed == 12
\* stands for chunk_size = 1280 samples in one frame, main.py:102, scaled down
FrameSamples == 1

\* samples in the audio file given to the file tester
MaxFileLen == 7
\* stands for chunk_size = 1280, test_wakeword_file.py:215, scaled down
FileChunkSize == 2

\* ---- configuration -------------------------------------------------------
\* THRESHOLD default "0.5", main.py:92
threshold == 5

\* values model.predict may give a label
Scores == {1, 2, 5, 6, 7, 8, 9}

\* WAKE_WORD_MODELS / --models, main.py:86-89
ModelLists == {<<"alpha">>, <<"alpha", "beta">>}

\* the scored sequence of the one-label scenario [0.2, 0.6, 0.9, 0.1]
ScenarioScores == <<2, 6, 9, 1>>

\* values model.predict may give a label of a file chunk
FileScores == {0, 5, 6, 7}

\* --threshold / THRESHOLD of the file tester, in tenths
FileThresholds == {0, 5}

\* None in the model_name of an event
NoLabel == "None"

\* current_event = NoEvent, test_wakeword_file.py:221
NoEvent ==
    [start_idx |-> 0 - 1, end_idx |-> 0 - 1, max_score |-> 0, model_name |-> NoLabel]

Threads == 1..NumThreads
None == 0

VARIABLES
    pc,               \* position of the main thread in run / cleanup
    wake_word_models, \* configured labels, in order
    audio_queue,      \* Queue(maxsize): frames waiting to be scored
    recording,        \* threading.Event
    recording_thread, \* the Thread object last started, or None
    wpc,              \* position of each capture thread
    wframe,           \* audio_data held by each capture thread
    stream,           \* "none" (self.stream = None), "open", "stopped" or "closed"
    nextFrame,        \* number of the next frame the stream delivers
    audio_data,       \* the frame run took from the queue
    prediction,       \* scores of audio_data, in label order
    idx,              \* position of the for loop over prediction.items()
    joinTimedOut,     \* the last join returned with the thread alive
    lastPlay,         \* outcome of the last play_video
    shutdownCause,    \* why run left its loop
    clearMark,        \* frames read from the stream before the last clear
    firedSinceReset,  \* a detection fired and model.reset has not run since
    playedSinceReset, \* play_video was invoked and model.reset has not run since
    playsThisFrame,   \* play_video invocations for audio_data
    cycleLog,         \* steps of the current detection, in order
    scenarioPos,      \* scored frames so far, while they follow ScenarioScores
    firedAt,          \* which of those scored frames fired a detection
    teardownLog,      \* steps of cleanup that were executed, in order
    enable_debug_recording, \* ENABLE_DEBUG_RECORDING: debug_recorder is not None
    recordedFrames,   \* frames run gave debug_recorder.process_chunk, in order
    scoredFrames,     \* frames run gave model.predict, in order (debug runs)
    discarded,        \* frames a queue clear removed (debug runs)
    audio_buffer,         \* RollingAudioRecorder: samples not yet written
    buffer_sample_count,  \* RollingAudioRecorder: their number
    current_file_index,   \* RollingAudioRecorder: index of the next file
    files,                \* content of buffer_<i>.wav, <<>> while not written
    fedCount,             \* samples given to process_chunk so far
    writeLog,             \* the samples handed to each file write, in order
    writeFailed,          \* a file write has failed
    warnings,             \* "Warning: Failed to write debug audio" lines printed
    fpc,              \* file tester: position in test_wake_word_on_file
    file_threshold,   \* file tester: threshold
    num_chunks,       \* file tester: len(audio_data) // chunk_size
    chunk_i,          \* file tester: i of the loop over the chunks
    max_scores,       \* file tester: highest score of each label so far
    current_event,    \* file tester: the open event, or None
    detections,       \* file tester: the events reported, in order
    predLog           \* file tester: what model.predict gave for each chunk

vars == <<pc, wake_word_models, audio_queue, recording, recording_thread, wpc,
          wframe, stream, nextFrame, audio_data, prediction, idx, joinTimedOut,
          lastPlay, shutdownCause, clearMark, firedSinceReset, playedSinceReset,
          playsThisFrame, cycleLog, scenarioPos, firedAt, teardownLog,
          enable_debug_recording, recordedFrames, scoredFrames, discarded,
          audio_buffer, buffer_sample_count, current_file_index, files,
          fedCount, writeLog, writeFailed, warnings,
          fpc, file_threshold, num_chunks, chunk_i, max_scores, current_event,
          detections, predLog>>

\* variables of the file tester, tools/test_wakeword_file.py
fileVars == <<fpc, file_threshold, num_chunks, chunk_i, max_scores,
              current_event, detections, predLog>>

\* variables of the detector (everything but the debug recorder)
detectorVars == <<pc, wake_word_models, audio_queue, recording, recording_thread,
                  wpc, wframe, stream, nextFrame, audio_data, prediction, idx,
                  joinTimedOut, lastPlay, shutdownCause, clearMark,
                  firedSinceReset, playedSinceReset, playsThisFrame, cycleLog,
                  scenarioPos, firedAt, teardownLog, enable_debug_recording,
                  recordedFrames, scoredFrames, discarded>>

\* the debug recording switch and what a debug run has recorded and scored
debugVars == <<enable_debug_recording, recordedFrames, scoredFrames, discarded>>

\* variables of the debug recorder
recVars == <<audio_buffer, buffer_sample_count, current_file_index, files,
             fedCount, writeLog, writeFailed, warnings>>

\* variables of the capture side
captureVars == <<wpc, wframe, nextFrame>>
\* bookkeeping that only some steps touch
histVars == <<clearMark, firedSinceReset, playedSinceReset, playsThisFrame,
              cycleLog, scenarioPos, firedAt, teardownLog>>

NumLabels == Len(wake_word_models)
NoPrediction == <<>>
Off == 0 - 1

\* Thread.is_alive()
is_alive(t) == wpc[t] \in {"loop", "read", "put"}

\* ---- the steps of one detection, main.py:257-267 -------------------------
DetectionSteps == <<"stop_recording", "clear", "reset", "play_video", "start_recording">>

InitBase ==
    /\ pc = "startup"
    /\ wake_word_models \in ModelLists
    /\ audio_queue = <<>>
    /\ recording = FALSE
    /\ recording_thread = None
    /\ wpc = [t \in Threads |-> "unstarted"]
    /\ wframe = [t \in Threads |-> 0]
    /\ stream = "none"
    /\ nextFrame = 1
    /\ audio_data = 0
    /\ prediction = NoPrediction
    /\ idx = 0
    /\ joinTimedOut = FALSE
    /\ lastPlay = "none"
    /\ shutdownCause = "none"
    /\ clearMark = 0
    /\ firedSinceReset = FALSE
    /\ playedSinceReset = FALSE
    /\ playsThisFrame = 0
    /\ cycleLog = <<>>
    /\ scenarioPos = 0
    /\ firedAt = {}
    /\ teardownLog = <<>>
    /\ recordedFrames = <<>>
    /\ scoredFrames = <<>>
    /\ discarded = {}
    /\ audio_buffer = <<>>
    /\ buffer_sample_count = 0
    /\ current_file_index = 0
    /\ files = [i \in 0..(NumFiles - 1) |-> <<>>]
    /\ fedCount = 0
    /\ writeLog = <<>>
    /\ writeFailed = FALSE
    /\ warnings = 0
    /\ fpc = "start"
    /\ file_threshold = 0
    /\ num_chunks = 0
    /\ chunk_i = 0
    /\ max_scores = <<>>
    /\ current_event = NoEvent
    /\ detections = <<>>
    /\ predLog = <<>>

\* ENABLE_DEBUG_RECORDING defaults to "false", main.py:95
Init == InitBase /\ enable_debug_recording = FALSE

\* ---- RollingAudioRecorder, main.py:23-69 -------------------------------------

\* the next n samples; a sample is named by its position in the audio fed
NewSamples(n) == [i \in 1..n |-> fedCount + i]

\* audio_to_write = full_audio[:self.samples_per_file]
AudioToWrite(full_audio) ==
    SubSeq(full_audio, 1, IF Len(full_audio) < SamplesPerFile
                          THEN Len(full_audio) ELSE SamplesPerFile)

\* variant: the samples past the file boundary are thrown away
RemainingAudio_Truncate(full_audio) == <<>>

\* remaining_audio = full_audio[self.samples_per_file:]
RemainingAudio(full_audio) ==
    SubSeq(full_audio, SamplesPerFile + 1, Len(full_audio))

\* what wave.open / writeframes can do to the file: write it, fail before
\* the file is opened, or fail after it was opened for writing
WriteOutcomes == {"written", "open_failed", "write_failed"}

FileAfterWrite(old, audio_to_write, outcome) ==
    CASE outcome = "written" -> audio_to_write
      [] outcome = "open_failed" -> old
      [] outcome = "write_failed" -> <<>>

\* variant: a failed write leaves _write_current_buffer at once, the index
\* and the buffer as they were
write_current_buffer_FailKeeps(full_audio, outcome) ==
    /\ files' = [files EXCEPT ![current_file_index] =
                     FileAfterWrite(@, AudioToWrite(full_audio), outcome)]
    /\ writeLog' = Append(writeLog, AudioToWrite(full_audio))
    /\ writeFailed' = (writeFailed \/ outcome # "written")
    /\ warnings' = IF outcome # "written" THEN warnings + 1 ELSE warnings
    /\ IF outcome # "written"
       THEN /\ audio_buffer' = full_audio
            /\ buffer_sample_count' = Len(full_audio)
            /\ UNCHANGED current_file_index
       ELSE /\ current_file_index' = (current_file_index + 1) % NumFiles
            /\ audio_buffer' = RemainingAudio(full_audio)
            /\ buffer_sample_count' = Len(RemainingAudio(full_audio))

\* _write_current_buffer with full_audio = np.concatenate(self.audio_buffer);
\* the list is never empty here, process_chunk has just appended to it; the
\* except of main.py:60-61 prints the warning and the method goes on
write_current_buffer(full_audio, outcome) ==
    /\ files' = [files EXCEPT ![current_file_index] =
                     FileAfterWrite(@, AudioToWrite(full_audio), outcome)]
    /\ writeLog' = Append(writeLog, AudioToWrite(full_audio))
    /\ writeFailed' = (writeFailed \/ outcome # "written")
    /\ warnings' = IF outcome # "written" THEN warnings + 1 ELSE warnings
    /\ current_file_index' = (current_file_index + 1) % NumFiles
    /\ IF Len(full_audio) > SamplesPerFile
       THEN /\ audio_buffer' = RemainingAudio(full_audio)
            /\ buffer_sample_count' = Len(RemainingAudio(full_audio))
       ELSE /\ audio_buffer' = <<>>
            /\ buffer_sample_count' = 0

\* process_chunk(audio_data), main.py:42-47
process_chunk(chunk, outcome) ==
    /\ fedCount' = fedCount + Len(chunk)
    /\ IF buffer_sample_count + Len(chunk) >= SamplesPerFile
       THEN write_current_buffer(audio_buffer \o chunk, outcome)
       ELSE /\ audio_buffer' = audio_buffer \o chunk
            /\ buffer_sample_count' = buffer_sample_count + Len(chunk)
            /\ UNCHANGED <<files, writeLog, writeFailed, warnings,
                         current_file_index>>

\* a caller gives the recorder one chunk of up to MaxChunk samples
ProcessChunk ==
    /\ \E n \in 0..MaxChunk :
          /\ fedCount + n <= MaxFed
          /\ \E outcome \in WriteOutcomes : process_chunk(NewSamples(n), outcome)
    /\ UNCHANGED detectorVars
    /\ UNCHANGED fileVars

\* the recorder on its own, debug recording not wired to a detector
RecInit == Init /\ wake_word_models = <<"alpha">>

RecNext == ProcessChunk

RecSpec == RecInit /\ [][RecNext]_vars

\* ---- capture thread: _recording_worker, main.py:203-213 -------------------

\* while self.recording.is_set()
WorkerLoop(t) ==
    /\ wpc[t] = "loop"
    /\ wpc' = [wpc EXCEPT ![t] = IF recording THEN "read" ELSE "exited"]
    /\ UNCHANGED <<pc, wake_word_models, audio_queue, recording, recording_thread,
                   wframe, stream, nextFrame, audio_data, prediction, idx,
                   joinTimedOut, lastPlay, shutdownCause>>
    /\ UNCHANGED histVars
    /\ UNCHANGED recVars
    /\ UNCHANGED fileVars
    /\ UNCHANGED debugVars

\* audio_data = self.stream.read(...) returns the next frame
WorkerRead(t) ==
    /\ wpc[t] = "read"
    /\ stream = "open"
    /\ nextFrame <= MaxFrames
    /\ wframe' = [wframe EXCEPT ![t] = nextFrame]
    /\ nextFrame' = nextFrame + 1
    /\ wpc' = [wpc EXCEPT ![t] = "put"]
    /\ UNCHANGED <<pc, wake_word_models, audio_queue, recording, recording_thread,
                   stream, audio_data, prediction, idx, joinTimedOut, lastPlay,
                   shutdownCause>>
    /\ UNCHANGED histVars
    /\ UNCHANGED recVars
    /\ UNCHANGED fileVars
    /\ UNCHANGED debugVars

\* self.stream.read(...) raises; except Exception: pass
WorkerReadError(t) ==
    /\ wpc[t] = "read"
    /\ wpc' = [wpc EXCEPT ![t] = "loop"]
    /\ UNCHANGED <<pc, wake_word_models, audio_queue, recording, recording_thread,
                   wframe, stream, nextFrame, audio_data, prediction, idx,
                   joinTimedOut, lastPlay, shutdownCause>>
    /\ UNCHANGED histVars
    /\ UNCHANGED recVars
    /\ UNCHANGED fileVars
    /\ UNCHANGED debugVars

\* variant: the put places the frame at the head of the queue
WorkerPut_Front(t) ==
    /\ wpc[t] = "put"
    /\ Len(audio_queue) < QueueMaxsize
    /\ audio_queue' = <<wframe[t]>> \o audio_queue
    /\ wframe' = [wframe EXCEPT ![t] = 0]
    /\ wpc' = [wpc EXCEPT ![t] = "loop"]
    /\ UNCHANGED <<pc, wake_word_models, recording, recording_thread, stream,
                   nextFrame, audio_data, prediction, idx, joinTimedOut, lastPlay,
                   shutdownCause>>
    /\ UNCHANGED histVars
    /\ UNCHANGED recVars
    /\ UNCHANGED fileVars
    /\ UNCHANGED debugVars

\* self.audio_queue.put(audio_data, timeout=0.1) finds room
WorkerPut(t) ==
    /\ wpc[t] = "put"
    /\ Len(audio_queue) < QueueMaxsize
    /\ audio_queue' = Append(audio_queue, wframe[t])
    /\ wframe' = [wframe EXCEPT ![t] = 0]
    /\ wpc' = [wpc EXCEPT ![t] = "loop"]
    /\ UNCHANGED <<pc, wake_word_models, recording, recording_thread, stream,
                   nextFrame, audio_data, prediction, idx, joinTimedOut, lastPlay,
                   shutdownCause>>
    /\ UNCHANGED histVars
    /\ UNCHANGED recVars
    /\ UNCHANGED fileVars
    /\ UNCHANGED debugVars

\* variant: the put has no timeout and waits on a full queue for ever
WorkerPutFull_Blocks(t) ==
    /\ wpc[t] = "put"
    /\ Len(audio_queue) >= QueueMaxsize
    /\ FALSE
    /\ UNCHANGED vars

\* variant: a put on a full queue pushes the oldest frame out
WorkerPutFull_DropOldest(t) ==
    /\ wpc[t] = "put"
    /\ Len(audio_queue) >= QueueMaxsize
    /\ audio_queue' = Append(Tail(audio_queue), wframe[t])
    /\ wframe' = [wframe EXCEPT ![t] = 0]
    /\ wpc' = [wpc EXCEPT ![t] = "loop"]
    /\ UNCHANGED <<pc, wake_word_models, recording, recording_thread, stream,
                   nextFrame, audio_data, prediction, idx, joinTimedOut, lastPlay,
                   shutdownCause>>
    /\ UNCHANGED histVars
    /\ UNCHANGED recVars
    /\ UNCHANGED fileVars
    /\ UNCHANGED debugVars

\* what the except clause of the worker prints for an exception of
\* stream.read: `except Exception as e: pass`, main.py:210-212
ReadErrorReport == "none"

\* the put times out on a full queue: queue.Full; except Exception: pass
WorkerPutFull(t) ==
    /\ wpc[t] = "put"
    /\ Len(audio_queue) >= QueueMaxsize
    /\ wframe' = [wframe EXCEPT ![t] = 0]
    /\ wpc' = [wpc EXCEPT ![t] = "loop"]
    /\ UNCHANGED <<pc, wake_word_models, audio_queue, recording, recording_thread,
                   stream, nextFrame, audio_data, prediction, idx, joinTimedOut,
                   lastPlay, shutdownCause>>
    /\ UNCHANGED histVars
    /\ UNCHANGED recVars
    /\ UNCHANGED fileVars
    /\ UNCHANGED debugVars

\* ---- start_recording, main.py:215-219 -------------------------------------

\* variant: start_recording starts a thread whatever the old one does
MayStart_Always == TRUE

\* if not self.recording_thread or not self.recording_thread.is_alive()
MayStart == recording_thread = None \/ ~is_alive(recording_thread)

\* the Thread object threading.Thread(...) creates: the lowest free one
NewThread == CHOOSE t \in Threads :
                 /\ ~is_alive(t)
                 /\ \A u \in Threads : ~is_alive(u) => t <= u

start_recording ==
    IF MayStart
    THEN /\ \E t \in Threads : ~is_alive(t)
         /\ recording' = TRUE
         /\ recording_thread' = NewThread
         /\ wpc' = [wpc EXCEPT ![NewThread] = "loop"]
         /\ wframe' = [wframe EXCEPT ![NewThread] = 0]
    ELSE UNCHANGED <<recording, recording_thread, wpc, wframe>>

\* ---- run, main.py:226-275 --------------------------------------------------

\* variant: run goes on when one of the three startup steps returned False
AfterStartup_Ignore(ok) == "start0"

\* `if not self.verify_video_exists(): return` and the two lines after it,
\* main.py:228-230
AfterStartup(ok) == IF ok THEN "start0" ELSE "returned"

\* verify_video_exists, initialize_model and initialize_audio all succeed
StartupOk ==
    /\ pc = "startup"
    /\ stream' = "open"
    /\ pc' = AfterStartup(TRUE)
    /\ UNCHANGED <<wake_word_models, audio_queue, recording, recording_thread,
                   audio_data, prediction, idx, joinTimedOut, lastPlay,
                   shutdownCause>>
    /\ UNCHANGED captureVars
    /\ UNCHANGED histVars
    /\ UNCHANGED recVars
    /\ UNCHANGED fileVars
    /\ UNCHANGED debugVars

\* one of them returns False: run returns, main.py:228-230
StartupFail ==
    /\ pc = "startup"
    /\ pc' = AfterStartup(FALSE)
    /\ UNCHANGED <<wake_word_models, audio_queue, recording, recording_thread,
                   stream, audio_data, prediction, idx, joinTimedOut, lastPlay,
                   shutdownCause>>
    /\ UNCHANGED captureVars
    /\ UNCHANGED histVars
    /\ UNCHANGED recVars
    /\ UNCHANGED fileVars
    /\ UNCHANGED debugVars

\* self.start_recording() before the loop, main.py:232
StartFirst ==
    /\ pc = "start0"
    /\ start_recording
    /\ pc' = "get"
    /\ UNCHANGED <<wake_word_models, audio_queue, stream, nextFrame, audio_data,
                   prediction, idx, joinTimedOut, lastPlay, shutdownCause>>
    /\ UNCHANGED histVars
    /\ UNCHANGED recVars
    /\ UNCHANGED fileVars
    /\ UNCHANGED debugVars

\* audio_data = self.audio_queue.get(timeout=0.5); on Empty the loop comes
\* back here with nothing changed
\* variant: run never calls the debug recorder
DebugRecord_Skip(frame) == UNCHANGED recVars /\ UNCHANGED recordedFrames

\* if self.debug_recorder: self.debug_recorder.process_chunk(audio_data),
\* main.py:242-244; a frame is FrameSamples samples
DebugRecord(frame) ==
    IF enable_debug_recording
    THEN /\ \E outcome \in WriteOutcomes :
               process_chunk(NewSamples(FrameSamples), outcome)
         /\ recordedFrames' = Append(recordedFrames, frame)
    ELSE UNCHANGED recVars /\ UNCHANGED recordedFrames

\* audio_data = self.audio_queue.get(timeout=0.5), then the debug recording;
\* an empty queue raises Empty and the loop goes round again
Get ==
    /\ pc = "get"
    /\ audio_queue # <<>>
    /\ audio_data' = Head(audio_queue)
    /\ audio_queue' = Tail(audio_queue)
    /\ DebugRecord(Head(audio_queue))
    /\ playsThisFrame' = 0
    /\ cycleLog' = <<>>
    /\ pc' = "predict"
    /\ UNCHANGED <<wake_word_models, recording, recording_thread, stream,
                   prediction, idx, joinTimedOut, lastPlay, shutdownCause,
                   clearMark, firedSinceReset, playedSinceReset, scenarioPos,
                   firedAt>>
    /\ UNCHANGED captureVars
    /\ UNCHANGED teardownLog
    /\ UNCHANGED <<enable_debug_recording, scoredFrames, discarded>>
    /\ UNCHANGED fileVars

\* the frames given to model.predict once frame is given to it
ScoredAfter(frame) ==
    IF enable_debug_recording THEN Append(scoredFrames, frame) ELSE scoredFrames

\* the scored frames still follow ScenarioScores after a frame scoring p
FollowsScenario(p) ==
    /\ NumLabels = 1
    /\ scenarioPos # Off
    /\ scenarioPos < Len(ScenarioScores)
    /\ p[1] = ScenarioScores[scenarioPos + 1]

\* prediction = self.model.predict(audio_array, vad_threshold=0.5)
Predict ==
    /\ pc = "predict"
    /\ \E p \in [1..NumLabels -> Scores] :
          /\ prediction' = p
          /\ scenarioPos' = IF FollowsScenario(p) THEN scenarioPos + 1 ELSE Off
          /\ firedAt' = IF FollowsScenario(p) THEN firedAt ELSE {}
    /\ idx' = 1
    /\ pc' = "check"
    /\ scoredFrames' = ScoredAfter(audio_data)
    /\ UNCHANGED <<wake_word_models, audio_queue, recording, recording_thread,
                   stream, audio_data, joinTimedOut, lastPlay, shutdownCause,
                   clearMark, firedSinceReset, playedSinceReset, playsThisFrame,
                   cycleLog>>
    /\ UNCHANGED captureVars
    /\ UNCHANGED teardownLog
    /\ UNCHANGED recVars
    /\ UNCHANGED fileVars
    /\ UNCHANGED <<enable_debug_recording, recordedFrames, discarded>>

\* where an exception of model.predict takes run: the inner try has only
\* `except Empty`, the outer only `except KeyboardInterrupt`, so the finally
\* clause runs cleanup and the exception leaves run. main.py:236-275
AfterPredictError == "cleanup"

PredictError ==
    /\ pc = "predict"
    /\ pc' = AfterPredictError
    /\ shutdownCause' = IF AfterPredictError = "cleanup" THEN "error" ELSE shutdownCause
    /\ scoredFrames' = ScoredAfter(audio_data)
    /\ UNCHANGED <<wake_word_models, audio_queue, recording, recording_thread,
                   stream, audio_data, prediction, idx, joinTimedOut, lastPlay>>
    /\ UNCHANGED captureVars
    /\ UNCHANGED histVars
    /\ UNCHANGED recVars
    /\ UNCHANGED fileVars
    /\ UNCHANGED <<enable_debug_recording, recordedFrames, discarded>>

\* variant: the comparison lets a score equal to the threshold through
Exceeds_AtLeast(score) == score >= threshold

\* if score > self.threshold, main.py:254
Exceeds(score) == score > threshold

\* for model_name, score in prediction.items(): the label at idx is not over
\* the threshold, or the items are exhausted
CheckPass ==
    /\ pc = "check"
    /\ IF idx > NumLabels
       THEN /\ pc' = "get"
            /\ prediction' = NoPrediction
            /\ idx' = 0
       ELSE /\ ~Exceeds(prediction[idx])
            /\ pc' = "check"
            /\ idx' = idx + 1
            /\ UNCHANGED prediction
    /\ UNCHANGED <<wake_word_models, audio_queue, recording, recording_thread,
                   stream, audio_data, joinTimedOut, lastPlay, shutdownCause>>
    /\ UNCHANGED captureVars
    /\ UNCHANGED histVars
    /\ UNCHANGED recVars
    /\ UNCHANGED fileVars
    /\ UNCHANGED debugVars

\* the label at idx is over the threshold: "Wake word detected", main.py:255
CheckFire ==
    /\ pc = "check"
    /\ idx <= NumLabels
    /\ Exceeds(prediction[idx])
    /\ pc' = DetectionSteps[1]
    /\ firedSinceReset' = TRUE
    /\ cycleLog' = <<>>
    /\ firedAt' = IF scenarioPos # Off THEN firedAt \cup {scenarioPos} ELSE firedAt
    /\ UNCHANGED <<wake_word_models, audio_queue, recording, recording_thread,
                   stream, audio_data, prediction, idx, joinTimedOut, lastPlay,
                   shutdownCause, clearMark, playedSinceReset, playsThisFrame,
                   scenarioPos>>
    /\ UNCHANGED captureVars
    /\ UNCHANGED teardownLog
    /\ UNCHANGED recVars
    /\ UNCHANGED fileVars
    /\ UNCHANGED debugVars

\* variant: the detection goes from the queue clear straight to play_video
StepAfter_NoReset(s) ==
    CASE s = "stop_recording" -> "clear"
      [] s = "clear" -> "play_video"
      [] s = "reset" -> "play_video"
      [] s = "play_video" -> "start_recording"
      [] s = "start_recording" -> "check"

\* variant: the detection plays the video before it clears the queue
StepAfter_PlayFirst(s) ==
    CASE s = "stop_recording" -> "play_video"
      [] s = "play_video" -> "clear"
      [] s = "clear" -> "reset"
      [] s = "reset" -> "start_recording"
      [] s = "start_recording" -> "check"

\* the statement that follows step s of a detection, main.py:257-267
StepAfter(s) ==
    CASE s = "stop_recording" -> "clear"
      [] s = "clear" -> "reset"
      [] s = "reset" -> "play_video"
      [] s = "play_video" -> "start_recording"
      [] s = "start_recording" -> "check"

\* what stop_recording prints when join(timeout=2.0) returns with the thread
\* alive: the value of join is not looked at, main.py:223-224
JoinTimeoutReport == "none"

\* stop_recording: self.recording.clear(); if self.recording_thread: join
StopRecording ==
    /\ pc = "stop_recording"
    /\ recording' = FALSE
    /\ cycleLog' = Append(cycleLog, "stop_recording")
    /\ pc' = IF recording_thread # None THEN "join" ELSE StepAfter("stop_recording")
    /\ UNCHANGED <<wake_word_models, audio_queue, recording_thread, stream,
                   audio_data, prediction, idx, joinTimedOut, lastPlay,
                   shutdownCause, clearMark, firedSinceReset, playedSinceReset,
                   playsThisFrame, scenarioPos, firedAt>>
    /\ UNCHANGED captureVars
    /\ UNCHANGED teardownLog
    /\ UNCHANGED recVars
    /\ UNCHANGED fileVars
    /\ UNCHANGED debugVars

\* self.recording_thread.join(timeout=2.0) returns because the thread ended
Join ==
    /\ pc = "join"
    /\ ~is_alive(recording_thread)
    /\ joinTimedOut' = FALSE
    /\ pc' = StepAfter("stop_recording")
    /\ UNCHANGED <<wake_word_models, audio_queue, recording, recording_thread,
                   stream, audio_data, prediction, idx, lastPlay, shutdownCause>>
    /\ UNCHANGED captureVars
    /\ UNCHANGED histVars
    /\ UNCHANGED recVars
    /\ UNCHANGED fileVars
    /\ UNCHANGED debugVars

\* join(timeout=2.0) returns after 2.0 s with the thread still alive
JoinTimeout ==
    /\ pc = "join"
    /\ is_alive(recording_thread)
    /\ joinTimedOut' = TRUE
    /\ pc' = StepAfter("stop_recording")
    /\ UNCHANGED <<wake_word_models, audio_queue, recording, recording_thread,
                   stream, audio_data, prediction, idx, lastPlay, shutdownCause>>
    /\ UNCHANGED captureVars
    /\ UNCHANGED histVars
    /\ UNCHANGED recVars
    /\ UNCHANGED fileVars
    /\ UNCHANGED debugVars

\* with self.audio_queue.mutex: self.audio_queue.queue.clear()
Clear ==
    /\ pc = "clear"
    /\ audio_queue' = <<>>
    /\ clearMark' = nextFrame - 1
    /\ cycleLog' = Append(cycleLog, "clear")
    /\ pc' = StepAfter("clear")
    /\ discarded' = IF enable_debug_recording
                    THEN discarded \cup {audio_queue[i] : i \in DOMAIN audio_queue}
                    ELSE discarded
    /\ UNCHANGED <<wake_word_models, recording, recording_thread, stream,
                   audio_data, prediction, idx, joinTimedOut, lastPlay,
                   shutdownCause, firedSinceReset, playedSinceReset,
                   playsThisFrame, scenarioPos, firedAt>>
    /\ UNCHANGED captureVars
    /\ UNCHANGED teardownLog
    /\ UNCHANGED recVars
    /\ UNCHANGED fileVars
    /\ UNCHANGED <<enable_debug_recording, recordedFrames, scoredFrames>>

\* self.model.reset()
Reset ==
    /\ pc = "reset"
    /\ firedSinceReset' = FALSE
    /\ playedSinceReset' = FALSE
    /\ cycleLog' = Append(cycleLog, "reset")
    /\ pc' = StepAfter("reset")
    /\ UNCHANGED <<wake_word_models, audio_queue, recording, recording_thread,
                   stream, audio_data, prediction, idx, joinTimedOut, lastPlay,
                   shutdownCause, clearMark, playsThisFrame, scenarioPos, firedAt>>
    /\ UNCHANGED captureVars
    /\ UNCHANGED teardownLog
    /\ UNCHANGED recVars
    /\ UNCHANGED fileVars
    /\ UNCHANGED debugVars

\* self.play_video() is entered: subprocess.run starts the player
PlayVideo ==
    /\ pc = "play_video"
    /\ playedSinceReset' = TRUE
    /\ playsThisFrame' = playsThisFrame + 1
    /\ cycleLog' = Append(cycleLog, "play_video")
    /\ pc' = "playing"
    /\ UNCHANGED <<wake_word_models, audio_queue, recording, recording_thread,
                   stream, audio_data, prediction, idx, joinTimedOut, lastPlay,
                   shutdownCause, clearMark, firedSinceReset, scenarioPos, firedAt>>
    /\ UNCHANGED captureVars
    /\ UNCHANGED teardownLog
    /\ UNCHANGED recVars
    /\ UNCHANGED fileVars
    /\ UNCHANGED debugVars

\* variant: an error of the player leaves play_video and ends run
AfterPlay_Propagates(ok) == IF ok THEN "start_recording" ELSE "cleanup"

\* where run goes on when play_video is over: FileNotFoundError and every
\* other Exception are caught inside play_video, main.py:198-201
AfterPlay(ok) == StepAfter("play_video")

\* the player ends, well or with an error
PlayReturn ==
    /\ pc = "playing"
    /\ \E ok \in BOOLEAN :
          /\ lastPlay' = IF ok THEN "ok" ELSE "failed"
          /\ pc' = AfterPlay(ok)
          /\ shutdownCause' = IF AfterPlay(ok) = "cleanup" THEN "error" ELSE shutdownCause
    /\ UNCHANGED <<wake_word_models, audio_queue, recording, recording_thread,
                   stream, audio_data, prediction, idx, joinTimedOut>>
    /\ UNCHANGED captureVars
    /\ UNCHANGED histVars
    /\ UNCHANGED recVars
    /\ UNCHANGED fileVars
    /\ UNCHANGED debugVars

\* self.start_recording() at the end of a detection, main.py:267
StartAgain ==
    /\ pc = "start_recording"
    /\ start_recording
    /\ cycleLog' = Append(cycleLog, "start_recording")
    /\ pc' = StepAfter("start_recording")
    /\ idx' = idx + 1
    /\ UNCHANGED <<wake_word_models, audio_queue, stream, nextFrame, audio_data,
                   prediction, joinTimedOut, lastPlay, shutdownCause, clearMark,
                   firedSinceReset, playedSinceReset, playsThisFrame,
                   scenarioPos, firedAt>>
    /\ UNCHANGED teardownLog
    /\ UNCHANGED recVars
    /\ UNCHANGED fileVars
    /\ UNCHANGED debugVars

\* positions of run inside `try: while True:`, main.py:236-270
LoopPcs == {"get", "predict", "check", "stop_recording", "join", "clear", "reset",
            "play_video", "playing", "start_recording"}

\* except KeyboardInterrupt, main.py:272; finally: self.cleanup()
KeyboardInterrupt ==
    /\ pc \in LoopPcs
    /\ pc' = "cleanup"
    /\ shutdownCause' = "interrupt"
    /\ UNCHANGED <<wake_word_models, audio_queue, recording, recording_thread,
                   stream, audio_data, prediction, idx, joinTimedOut, lastPlay>>
    /\ UNCHANGED captureVars
    /\ UNCHANGED histVars
    /\ UNCHANGED recVars
    /\ UNCHANGED fileVars
    /\ UNCHANGED debugVars

\* ---- cleanup, main.py:277-283 ----------------------------------------------

\* the statements of cleanup, in order
TeardownSteps == <<"stop_recording", "stop_stream", "close", "terminate">>

\* where cleanup goes on after one of its statements: cleanup has no try, so
\* an exception of a statement leaves cleanup and run, main.py:277-283
AfterTeardown(step, ok) ==
    IF ok
    THEN CASE step = "stop_recording" -> "stop_stream"
           [] step = "stop_stream" -> "close"
           [] step = "close" -> "terminate"
           [] step = "terminate" -> "done"
    ELSE "aborted"

\* self.stop_recording(): the flag
CleanupStop ==
    /\ pc = "cleanup"
    /\ recording' = FALSE
    /\ teardownLog' = Append(teardownLog, "stop_recording")
    /\ pc' = IF recording_thread # None THEN "cleanup_join"
                                        ELSE AfterTeardown("stop_recording", TRUE)
    /\ UNCHANGED <<wake_word_models, audio_queue, recording_thread, stream,
                   audio_data, prediction, idx, joinTimedOut, lastPlay,
                   shutdownCause>>
    /\ UNCHANGED captureVars
    /\ UNCHANGED <<clearMark, firedSinceReset, playedSinceReset, playsThisFrame,
                   cycleLog, scenarioPos, firedAt>>
    /\ UNCHANGED recVars
    /\ UNCHANGED fileVars
    /\ UNCHANGED debugVars

\* self.stop_recording(): the join, ended or timed out
CleanupJoin ==
    /\ pc = "cleanup_join"
    /\ joinTimedOut' = is_alive(recording_thread)
    /\ pc' = AfterTeardown("stop_recording", TRUE)
    /\ UNCHANGED <<wake_word_models, audio_queue, recording, recording_thread,
                   stream, audio_data, prediction, idx, lastPlay, shutdownCause>>
    /\ UNCHANGED captureVars
    /\ UNCHANGED histVars
    /\ UNCHANGED recVars
    /\ UNCHANGED fileVars
    /\ UNCHANGED debugVars

\* self.stream.stop_stream(), done or raising
StopStream ==
    /\ pc = "stop_stream"
    /\ teardownLog' = Append(teardownLog, "stop_stream")
    /\ \E ok \in BOOLEAN :
          /\ stream' = IF ok THEN "stopped" ELSE stream
          /\ pc' = AfterTeardown("stop_stream", ok)
    /\ UNCHANGED <<wake_word_models, audio_queue, recording, recording_thread,
                   audio_data, prediction, idx, joinTimedOut, lastPlay,
                   shutdownCause>>
    /\ UNCHANGED captureVars
    /\ UNCHANGED <<clearMark, firedSinceReset, playedSinceReset, playsThisFrame,
                   cycleLog, scenarioPos, firedAt>>
    /\ UNCHANGED recVars
    /\ UNCHANGED fileVars
    /\ UNCHANGED debugVars

\* self.stream.close(), done or raising
CloseStream ==
    /\ pc = "close"
    /\ teardownLog' = Append(teardownLog, "close")
    /\ \E ok \in BOOLEAN :
          /\ stream' = IF ok THEN "closed" ELSE stream
          /\ pc' = AfterTeardown("close", ok)
    /\ UNCHANGED <<wake_word_models, audio_queue, recording, recording_thread,
                   audio_data, prediction, idx, joinTimedOut, lastPlay,
                   shutdownCause>>
    /\ UNCHANGED captureVars
    /\ UNCHANGED <<clearMark, firedSinceReset, playedSinceReset, playsThisFrame,
                   cycleLog, scenarioPos, firedAt>>
    /\ UNCHANGED recVars
    /\ UNCHANGED fileVars
    /\ UNCHANGED debugVars

\* self.audio.terminate(), done or raising; run is over
Terminate ==
    /\ pc = "terminate"
    /\ teardownLog' = Append(teardownLog, "terminate")
    /\ \E ok \in BOOLEAN : pc' = AfterTeardown("terminate", ok)
    /\ UNCHANGED <<wake_word_models, audio_queue, recording, recording_thread,
                   stream, audio_data, prediction, idx, joinTimedOut, lastPlay,
                   shutdownCause>>
    /\ UNCHANGED captureVars
    /\ UNCHANGED <<clearMark, firedSinceReset, playedSinceReset, playsThisFrame,
                   cycleLog, scenarioPos, firedAt>>
    /\ UNCHANGED recVars
    /\ UNCHANGED fileVars
    /\ UNCHANGED debugVars

Next ==
    \/ \E t \in Threads : WorkerLoop(t)
    \/ \E t \in Threads : WorkerRead(t)
    \/ \E t \in Threads : WorkerReadError(t)
    \/ \E t \in Threads : WorkerPut(t)
    \/ \E t \in Threads : WorkerPutFull(t)
    \/ StartupOk
    \/ StartupFail
    \/ StartFirst
    \/ Get
    \/ Predict
    \/ PredictError
    \/ CheckPass
    \/ CheckFire
    \/ StopRecording
    \/ Join
    \/ JoinTimeout
    \/ Clear
    \/ Reset
    \/ PlayVideo
    \/ PlayReturn
    \/ StartAgain
    \/ KeyboardInterrupt
    \/ CleanupStop
    \/ CleanupJoin
    \/ StopStream
    \/ CloseStream
    \/ Terminate

Spec == Init /\ [][Next]_vars

\* ---- test_wake_word_on_file, tools/test_wakeword_file.py:159-289 -----------

\* configuration and load_audio_file succeed: the threshold is set and the
\* file has some number of samples; the model is loaded
LoadFile ==
    /\ fpc = "start"
    /\ \E th \in FileThresholds : file_threshold' = th
    /\ \E len \in 0..MaxFileLen : num_chunks' = len \div FileChunkSize
    /\ chunk_i' = 0
    /\ max_scores' = <<>>
    /\ current_event' = NoEvent
    /\ detections' = <<>>
    /\ fpc' = "loop"
    /\ UNCHANGED predLog
    /\ UNCHANGED detectorVars
    /\ UNCHANGED recVars

\* load_audio_file or Model(...) fails: the function returns
LoadFail ==
    /\ fpc = "start"
    /\ fpc' = "returned"
    /\ UNCHANGED <<file_threshold, num_chunks, chunk_i, max_scores,
                   current_event, detections, predLog>>
    /\ UNCHANGED detectorVars
    /\ UNCHANGED recVars

\* the inner for over prediction.items() after the first k labels:
\* chunk_detected, best_score_in_chunk, best_model_in_chunk,
\* test_wakeword_file.py:230-248
RECURSIVE BestInChunk(_, _)
BestInChunk(p, k) ==
    IF k = 0
    THEN [chunk_detected |-> FALSE, best_score |-> 0, best_model |-> NoLabel]
    ELSE LET b == BestInChunk(p, k - 1)
         IN  IF p[k] > file_threshold
             THEN IF p[k] > b.best_score
                  THEN [chunk_detected |-> TRUE, best_score |-> p[k],
                        best_model |-> wake_word_models[k]]
                  ELSE [b EXCEPT !.chunk_detected = TRUE]
             ELSE b

\* max_scores after the scores p of one chunk, test_wakeword_file.py:235-239
MaxScoresAfter(p) ==
    [k \in 1..NumLabels |->
        LET old == IF k \in DOMAIN max_scores THEN max_scores[k] ELSE 0
        IN  IF p[k] > old THEN p[k] ELSE old]

\* a new event, test_wakeword_file.py:253-259
NewEvent(start_idx, end_idx, b) ==
    [start_idx |-> start_idx, end_idx |-> end_idx,
     max_score |-> b.best_score, model_name |-> b.best_model]

\* variant: a chunk that ties the event's best score takes the event over
ExtendEvent_AtLeast(ev, end_idx, b) ==
    IF b.best_score >= ev.max_score
    THEN [ev EXCEPT !.end_idx = end_idx, !.max_score = b.best_score,
                    !.model_name = b.best_model]
    ELSE [ev EXCEPT !.end_idx = end_idx]

\* the open event extended by a chunk, test_wakeword_file.py:261-265
ExtendEvent(ev, end_idx, b) ==
    IF b.best_score > ev.max_score
    THEN [ev EXCEPT !.end_idx = end_idx, !.max_score = b.best_score,
                    !.model_name = b.best_model]
    ELSE [ev EXCEPT !.end_idx = end_idx]

\* one round of `for i in range(num_chunks)`, test_wakeword_file.py:223-279
FileChunk ==
    /\ fpc = "loop"
    /\ chunk_i < num_chunks
    /\ \E p \in [1..NumLabels -> FileScores] :
          LET start_idx == chunk_i * FileChunkSize
              end_idx == start_idx + FileChunkSize
              b == BestInChunk(p, NumLabels)
          IN  /\ predLog' = Append(predLog, p)
              /\ max_scores' = MaxScoresAfter(p)
              /\ IF b.chunk_detected
                 THEN /\ current_event' =
                            IF current_event = NoEvent
                            THEN NewEvent(start_idx, end_idx, b)
                            ELSE ExtendEvent(current_event, end_idx, b)
                      /\ UNCHANGED detections
                 ELSE IF current_event # NoEvent
                      THEN /\ detections' = Append(detections, current_event)
                           /\ current_event' = NoEvent
                      ELSE UNCHANGED <<detections, current_event>>
    /\ chunk_i' = chunk_i + 1
    /\ UNCHANGED <<fpc, file_threshold, num_chunks>>
    /\ UNCHANGED detectorVars
    /\ UNCHANGED recVars

\* after the loop: the event still open is reported,
\* test_wakeword_file.py:281-289
FileEnd ==
    /\ fpc = "loop"
    /\ chunk_i = num_chunks
    /\ detections' = IF current_event # NoEvent
                     THEN Append(detections, current_event)
                     ELSE detections
    /\ fpc' = "done"
    /\ UNCHANGED <<file_threshold, num_chunks, chunk_i, max_scores,
                   current_event, predLog>>
    /\ UNCHANGED detectorVars
    /\ UNCHANGED recVars

FileNext == LoadFile \/ LoadFail \/ FileChunk \/ FileEnd

\* the file tester on its own
FileSpec == Init /\ [][FileNext]_vars

\* ---- scheduling ---------------------------------------------------------------

\* a capture thread that can take a step takes one: the thread is scheduled,
\* stream.read returns (with a frame or an exception) and the put returns
\* within its timeout, main.py:205-212
CaptureFairness ==
    \A t \in Threads :
        /\ WF_vars(WorkerLoop(t))
        /\ WF_vars(WorkerRead(t) \/ WorkerReadError(t))
        /\ WF_vars(WorkerPut(t) \/ WorkerPutFull(t))

\* the run of one configured label
FairInit == Init /\ wake_word_models = <<"alpha">>

FairSpec == FairInit /\ [][Next]_vars /\ CaptureFairness

\* ENABLE_DEBUG_RECORDING=true: the detector with its debug recorder
DebugInit ==
    InitBase /\ enable_debug_recording = TRUE /\ wake_word_models = <<"alpha">>

DebugSpec == DebugInit /\ [][Next]_vars

TypeOK ==
    /\ wake_word_models \in ModelLists
    /\ Len(audio_queue) <= QueueMaxsize
    /\ recording \in BOOLEAN
    /\ recording_thread \in Threads \cup {None}
    /\ nextFrame \in 1..(MaxFrames + 1)

\* ---- properties -------------------------------------------------------------

\* positions of run inside one detection, main.py:255-267
DetectionPcs == {"stop_recording", "join", "clear", "reset", "play_video",
                 "playing", "start_recording"}

IsPrefix(s, t) == Len(s) <= Len(t) /\ \A i \in 1..Len(s) : s[i] = t[i]

\* C1: after a detection, no frame read from the stream before that
\* detection's queue clear is passed to model.predict.
C1_NoStaleFrameScored == pc = "predict" => audio_data > clearMark

\* C2 as stated: between an invocation of play_video and the next
\* model.predict there is a model.reset().
C2_ResetAfterPlay == pc = "predict" => ~playedSinceReset

\* C2 amended: after a detection fires, model.reset() runs before the next
\* frame is taken and scored (the reset comes before play_video).
C2_ResetBeforeNextScore == pc \in {"get", "predict"} => ~firedSinceReset

C2_Witness == pc = "predict" /\ lastPlay # "none" /\ ~firedSinceReset

\* C3: the steps of a detection run in the order stop_recording, clear,
\* reset, play_video, start_recording, and the next audio_queue.get (or the
\* next detection of the same frame) comes only after all five.
C3_DetectionOrder ==
    [][ /\ IsPrefix(cycleLog', DetectionSteps)
        /\ (pc = "get" /\ pc' = "predict") => cycleLog \in {<<>>, DetectionSteps}
        /\ (pc = "check" /\ pc' = "get") => cycleLog \in {<<>>, DetectionSteps}
        /\ (pc = "check" /\ pc' = "stop_recording") =>
               cycleLog \in {<<>>, DetectionSteps} ]_vars

C3_Witness == pc = "get" /\ cycleLog = DetectionSteps

\* C4: while play_video runs the recording flag is cleared and no capture
\* thread reads the stream or puts a frame.
C4_NoCaptureWhilePlaying ==
    pc = "playing" =>
        /\ ~recording
        /\ \A t \in Threads : wpc[t] \notin {"read", "put"}

\* the first label with the highest score
ArgMax(p) == CHOOSE i \in DOMAIN p :
                 /\ \A j \in DOMAIN p : p[j] <= p[i]
                 /\ \A j \in DOMAIN p : p[j] = p[i] => i <= j

\* C5: the label a detection is run for is the one with the highest score
\* of the frame, the first of them in model order on a tie.
C5_HighestScoreSelected == pc \in DetectionPcs => idx = ArgMax(prediction)

\* C6: play_video is invoked at most once for one scored frame.
C6_OnePlayPerFrame == playsThisFrame <= 1

\* the one-label rule of C7: the check of a frame starts a detection if and
\* only if the score is strictly above the threshold, and passing over the
\* frame changes nothing of capture, queue and detector
C7_StrictRule ==
    /\ (NumLabels = 1 /\ pc = "check" /\ pc' = "stop_recording") =>
           prediction[1] > threshold
    /\ (NumLabels = 1 /\ pc = "check" /\ idx = 1 /\ prediction[1] > threshold) =>
           idx' = 1
    /\ (NumLabels = 1 /\ pc = "check" /\ idx = 1 /\ idx' = 2) =>
           /\ prediction[1] <= threshold
           /\ pc' = "check"
           /\ UNCHANGED <<recording, recording_thread, cycleLog, clearMark,
                          playsThisFrame, lastPlay>>
           /\ Len(audio_queue') >= Len(audio_queue)
    /\ (NumLabels = 1 /\ pc' \in DetectionPcs) => prediction'[1] > threshold

\* the scored frames were exactly ScenarioScores and run is back at get
ScenarioDone == scenarioPos = Len(ScenarioScores) /\ pc = "get"

\* C7 as stated: the strict rule, and the scored sequence [0.2, 0.6, 0.9, 0.1]
\* fires once, at the frame scoring 0.6.
C7_FiresOnce ==
    [][ C7_StrictRule /\ (ScenarioDone' => firedAt' = {2}) ]_vars

\* C7 amended: the strict rule, and the scored sequence [0.2, 0.6, 0.9, 0.1]
\* fires at every frame scoring above 0.5: first at 0.6 and again at 0.9.
C7_FiresAtEachCrossing ==
    [][ C7_StrictRule /\ (ScenarioDone' => firedAt' = {2, 3}) ]_vars

C7_Witness == ScenarioDone /\ firedAt = {2, 3} /\ NumLabels = 1

\* C8: an error of model.predict is caught: run does not shut down, nothing
\* of capture, queue and detector changes, and run goes on with the next get.
C8_PredictErrorSkipsFrame ==
    [][ (pc = "predict" /\ pc' \notin {"predict", "check"}
                        /\ shutdownCause' # "interrupt") =>
            /\ pc' = "get"
            /\ shutdownCause' = "none"
            /\ UNCHANGED <<recording, recording_thread, cycleLog, clearMark,
                           playsThisFrame>> ]_vars

\* C9: a failed play_video does not end run: the next statement is
\* start_recording, as after a successful one, and run is not shut down.
C9_FailedPlayResumes ==
    [][ (pc = "playing" /\ pc' # "playing" /\ shutdownCause' # "interrupt"
                        /\ lastPlay' = "failed") =>
            /\ pc' = "start_recording"
            /\ shutdownCause' = "none"
            /\ cycleLog' = cycleLog ]_vars

C9_Witness == pc = "check" /\ lastPlay = "failed" /\ playsThisFrame = 0

\* C10: whenever run listens (start_recording has returned), the recording
\* flag is set and the capture thread is alive.
C10_CaptureRunsWhileListening ==
    pc \in {"get", "predict", "check"} =>
        /\ recording
        /\ recording_thread # None
        /\ is_alive(recording_thread)

\* the capture threads that are alive
AliveThreads == {t \in Threads : is_alive(t)}

\* a call of start_recording returns
StartStep == pc \in {"start0", "start_recording"} /\ pc' \in {"get", "check"}

\* C11: at most one capture thread is alive; start_recording with a live
\* capture thread changes nothing, and after every start_recording exactly
\* one capture thread is alive.
C11_OneCaptureThread ==
    [][ /\ Cardinality(AliveThreads') <= 1
        /\ StartStep =>
              /\ Cardinality(AliveThreads') = 1
              /\ AliveThreads # {} => UNCHANGED <<wpc, recording_thread, recording>> ]_vars

C11_Witness ==
    /\ pc = "check"
    /\ cycleLog = DetectionSteps
    /\ joinTimedOut
    /\ ~recording
    /\ is_alive(recording_thread)

\* C12: a join of stop_recording that ends with the thread alive is
\* reported, and stop_recording returns normally.
C12_TimeoutReported ==
    [][ (pc \in {"join", "cleanup_join"} /\ pc' \notin {pc, "cleanup"}
                                         /\ joinTimedOut') =>
            /\ JoinTimeoutReport # "none"
            /\ pc' \in {"clear", "stop_stream"} ]_vars

\* C13: an exception of stream.read in the capture thread is logged, and the
\* thread goes back to its loop test with run and the queue untouched.
C13_ReadErrorLogged ==
    [][ \A t \in Threads :
          (wpc[t] = "read" /\ wpc'[t] = "loop") =>
              /\ ReadErrorReport # "none"
              /\ pc' = pc
              /\ audio_queue' = audio_queue ]_vars

Increasing(q) == \A i, j \in 1..Len(q) : i < j => q[i] < q[j]

\* C14: the frames passed to model.predict are frames read from the stream,
\* in the order they were read and each at most once.
C14_CaptureOrder ==
    [][ /\ (pc = "get" /\ pc' = "predict") =>
              /\ audio_data' > audio_data
              /\ audio_data' < nextFrame
        /\ Increasing(audio_queue') ]_vars

C14_Witness == pc = "predict" /\ audio_data >= 3 /\ clearMark >= 1

\* a put of thread t gives up on a full queue
PutFullStep(t) ==
    /\ wpc[t] = "put"
    /\ wpc'[t] # "put"
    /\ Len(audio_queue) >= QueueMaxsize

\* C15: audio_queue never holds more than its capacity; a put that finds it
\* full drops the frame it holds, leaves the queue as it is and takes the
\* capture thread back to its loop.
C15_BoundedQueue ==
    [][ /\ Len(audio_queue') <= QueueMaxsize
        /\ \A t \in Threads :
              PutFullStep(t) =>
                  /\ audio_queue' = audio_queue
                  /\ wframe'[t] = 0
                  /\ wpc'[t] = "loop" ]_vars

\* the newest frame read was dropped on a full queue
C15_Witness ==
    /\ Len(audio_queue) = QueueMaxsize
    /\ audio_queue[Len(audio_queue)] < nextFrame - 1
    /\ \A t \in Threads : wframe[t] = 0
    /\ clearMark = 0

\* positions of run once shutdown has begun
ShutdownPcs == {"cleanup", "cleanup_join", "stop_stream", "close", "terminate",
                "done", "aborted"}

\* C16: shutdown is terminal (no frame is taken or scored and no action is
\* invoked once it has begun), and when it is over capture is stopped and
\* the stream is closed.
C16_ShutdownTerminal ==
    [][ /\ (pc \in LoopPcs /\ shutdownCause' = "interrupt") => pc' = "cleanup"
        /\ pc \in ShutdownPcs =>
              /\ pc' \in ShutdownPcs
              /\ UNCHANGED <<audio_data, prediction, playsThisFrame>>
        /\ pc' \in {"done", "aborted"} => (~recording' /\ stream' = "closed") ]_vars

\* C18: when startup fails the stream is never opened, run returns, no
\* capture thread is started, no frame is read, taken or scored and no
\* action is invoked.
C18_StartupFailureReturns ==
    stream = "none" =>
        /\ pc \in {"startup", "returned"}
        /\ ~recording
        /\ recording_thread = None
        /\ \A t \in Threads : wpc[t] = "unstarted"
        /\ nextFrame = 1
        /\ audio_data = 0
        /\ prediction = NoPrediction
        /\ lastPlay = "none"

C18_Witness == pc = "returned" /\ stream = "none"

\* C19: whatever statement of cleanup fails, all four statements of cleanup
\* are executed.
C19_TeardownCompletes ==
    pc \in {"done", "aborted"} => teardownLog = TeardownSteps

\* C17: a capture thread that is alive while the recording flag is cleared
\* exits, also with the queue full and run taking no frames.
C17_CaptureThreadExits ==
    \A t \in Threads : (is_alive(t) /\ ~recording) ~> ~is_alive(t)

\* a capture thread has exited on a full queue that run no longer reads
C17_Witness ==
    /\ \E t \in Threads : wpc[t] = "exited"
    /\ Len(audio_queue) = QueueMaxsize
    /\ pc \in {"done", "aborted"}

RECURSIVE Flatten(_)
Flatten(ss) == IF ss = <<>> THEN <<>> ELSE Head(ss) \o Flatten(Tail(ss))

\* C20: with every write succeeding, each write and each file holds exactly
\* samples_per_file samples, and the writes in order followed by the
\* accumulation buffer are exactly the samples fed, in order.
C20_NoSampleLost ==
    ~writeFailed =>
        /\ \A i \in 1..Len(writeLog) : Len(writeLog[i]) = SamplesPerFile
        /\ \A f \in DOMAIN files : files[f] # <<>> => Len(files[f]) = SamplesPerFile
        /\ Flatten(writeLog) \o audio_buffer = [i \in 1..fedCount |-> i]
        /\ buffer_sample_count = Len(audio_buffer)

C20_Witness == ~writeFailed /\ Len(writeLog) >= 2 /\ audio_buffer # <<>>

\* C21: after exactly k * samples_per_file samples, fed in chunks of any
\* sizes, exactly k file writes were made, each of samples_per_file samples,
\* the i-th at index i mod num_files; current_file_index is in
\* 0..num_files-1.
C21_OneWritePerFileOfSamples ==
    /\ current_file_index \in 0..(NumFiles - 1)
    /\ current_file_index = Len(writeLog) % NumFiles
    /\ \A i \in 1..Len(writeLog) : Len(writeLog[i]) = SamplesPerFile
    /\ fedCount % SamplesPerFile = 0 => Len(writeLog) = fedCount \div SamplesPerFile

\* C22: a failed write is reported by one warning and changes nothing else:
\* every write, failed or not, takes the next samples_per_file samples at
\* the next index, and the samples past it stay in the buffer.
C22_FailedWriteNonFatal ==
    /\ writeFailed <=> warnings > 0
    /\ \A i \in 1..Len(writeLog) : Len(writeLog[i]) = SamplesPerFile
    /\ Flatten(writeLog) \o audio_buffer = [i \in 1..fedCount |-> i]
    /\ buffer_sample_count = Len(audio_buffer)
    /\ current_file_index = Len(writeLog) % NumFiles

C22_Witness ==
    /\ warnings = 1
    /\ Len(writeLog) >= 2
    /\ files[current_file_index] = <<>>
    /\ files[(current_file_index + 1) % NumFiles] # <<>>
    /\ audio_buffer # <<>>

\* C24: the stream is stopped or closed only when no capture thread is alive.
C24_StreamOutlivesCapture ==
    stream \in {"stopped", "closed"} => \A t \in Threads : ~is_alive(t)

\* C23 as stated: once a recorded frame has had its turn at model.predict,
\* the frames recorded are the frames scored.
C23_RecordedEqualsScored ==
    pc # "predict" => recordedFrames = scoredFrames

\* C23: the frames scored are, in order, the frames recorded; the recorder
\* is ahead by at most the frame run holds, which is waiting for
\* model.predict or was left unscored by a KeyboardInterrupt; no frame is
\* recorded twice, and a frame removed by a queue clear is neither recorded
\* nor scored.
C23_ScoredFollowRecorded ==
    /\ IsPrefix(scoredFrames, recordedFrames)
    /\ Len(recordedFrames) <= Len(scoredFrames) + 1
    /\ Len(recordedFrames) = Len(scoredFrames) + 1 =>
          /\ recordedFrames[Len(recordedFrames)] = audio_data
          /\ pc = "predict" \/ shutdownCause = "interrupt"
    /\ \A i, j \in 1..Len(recordedFrames) :
          i # j => recordedFrames[i] # recordedFrames[j]
    /\ \A i \in 1..Len(recordedFrames) : recordedFrames[i] \notin discarded
    /\ fedCount = FrameSamples * Len(recordedFrames)

C23_Witness ==
    /\ discarded # {}
    /\ Len(scoredFrames) >= 2
    /\ Len(recordedFrames) = Len(scoredFrames) + 1
    /\ Len(writeLog) >= 1
    /\ pc = "done"

\* some label of chunk c (1-based) scores strictly above the threshold
Detected(c) == \E k \in 1..NumLabels : predLog[c][k] > file_threshold

\* chunks at which a maximal run of detected chunks starts
RunStarts ==
    {c \in 1..Len(predLog) : Detected(c) /\ (c = 1 \/ ~Detected(c - 1))}

\* the last chunk of the maximal run starting at chunk s
RunEnd(s) ==
    CHOOSE e \in s..Len(predLog) :
        /\ \A c \in s..e : Detected(c)
        /\ e = Len(predLog) \/ ~Detected(e + 1)

\* the above-threshold scores of the run s..e
RunScores(s, e) ==
    {v \in {predLog[c][k] : c \in s..e, k \in 1..NumLabels} : v > file_threshold}

\* the highest of them
RunMax(s, e) == CHOOSE v \in RunScores(s, e) : \A w \in RunScores(s, e) : w <= v

\* the label that reaches it first: earliest chunk, then label order
RunLabel(s, e) ==
    LET m == RunMax(s, e)
        c == CHOOSE c \in s..e :
                /\ \E k \in 1..NumLabels : predLog[c][k] = m
                /\ \A d \in s..(c - 1) : \A k \in 1..NumLabels : predLog[d][k] # m
        k == CHOOSE k \in 1..NumLabels :
                /\ predLog[c][k] = m
                /\ \A j \in 1..(k - 1) : predLog[c][j] # m
    IN  wake_word_models[k]

\* C25: when the file tester is done, the events reported are exactly the
\* maximal runs of consecutive detected chunks, in order and each once, the
\* run at the end of the file included; each event has the highest
\* above-threshold score of its run and the label that first reached it.
C25_EventsAreMaximalRuns ==
    fpc = "done" =>
        /\ Len(predLog) = num_chunks
        /\ Len(detections) = Cardinality(RunStarts)
        /\ \A n \in 1..Len(detections) :
              LET ev == detections[n]
                  s == (ev.start_idx \div FileChunkSize) + 1
              IN  /\ s \in RunStarts
                  /\ ev.start_idx = (s - 1) * FileChunkSize
                  /\ ev.end_idx = RunEnd(s) * FileChunkSize
                  /\ ev.max_score = RunMax(s, RunEnd(s))
                  /\ ev.model_name = RunLabel(s, RunEnd(s))
                  /\ n < Len(detections) =>
                        ev.start_idx < detections[n + 1].start_idx

C25_Witness ==
    /\ fpc = "done"
    /\ Len(detections) = 2
    /\ detections[2].end_idx = num_chunks * FileChunkSize
    /\ detections[1].model_name = "beta"
    /\ detections[2].model_name = "alpha"

====
